---- MODULE Spec2Model ----
(***************************************************************************)
(* A model of datastore/store.py: a document store (class Datastore) on    *)
(* top of a relational database, with materialized views (class View)      *)
(* maintained inside the transaction of every write.                       *)
(*                                                                         *)
(* Conventions                                                             *)
(*  - a table is a collection of rows; a row is a function from the names  *)
(*    of its non-NULL columns to their values (a NULL column is absent     *)
(*    from the row's domain, so the all-NULL row is the empty function);   *)
(*  - the primary table is a set of rows (its id column is a primary key), *)
(*    a view table is a bag of rows (it has no key at all);                *)
(*  - a Python value is a record [t, v]: t is its type, v its content;     *)
(*    a document is a function from field names to such values;            *)
(*  - a call that raises is a result record with err = TRUE.               *)
(***************************************************************************)
EXTENDS Integers, Sequences, FiniteSets, Bags, TLC

VARIABLES
    table,        \* the committed rows of the primary table
    views,        \* view name -> the committed rows of the view's table
    bindRequired, \* the installed SQLAlchemy: is a bindparam without a value required?
    last,         \* the last call made on the store: its arguments, the keys of
                  \* the call it found stored, and its outcome
    txn,          \* the open transactions of concurrent callers
    registered    \* self.views: view name -> is the view bound to its table?

vars == <<table, views, bindRequired, last, txn, registered>>

(***************************************************************************)
(* Bounds of the model.                                                    *)
(***************************************************************************)
\* a write that would leave more than this many all-NULL rows in a view is not explored
MaxNullRows == 2

\* the keys callers use
Keys == {"a", "b"}

(***************************************************************************)
(* Python values and documents.                                            *)
(***************************************************************************)
Str(s) == [t |-> "str", v |-> s]
Num(n) == [t |-> "num", v |-> n]
List(q) == [t |-> "list", v |-> q]
None == [t |-> "null", v |-> ""]
Bool(b) == [t |-> "bool", v |-> b]
\* a nested mapping; v is a document
Dict(d) == [t |-> "dict", v |-> d]
\* a Python set; v is the set of its members
PySet(S) == [t |-> "set", v |-> S]
\* an arbitrary Python object, which json.dumps cannot serialize
Object == [t |-> "object", v |-> ""]

\* the reserved fields that _process_row sets on a document
SystemFields == {"_id", "_rev", "_key", "_updated"}

\* the documents callers write
Docs ==
    { [name |-> Str("Foo")],
      [name |-> Str("Bar"), isbns |-> List(<<"i1", "i1">>)],
      [name |-> Str("FOO"), isbns |-> List(<<"i1", "i2">>)],
      [isbns |-> List(<<"i2">>)],
      [name |-> Str("Bar"), isbns |-> None],
      [name |-> Str("Foo"), blob |-> Object] }

\* str.lower, on the strings of Docs
Lower(s) ==
    CASE s = "Foo" -> "foo"
      [] s = "FOO" -> "foo"
      [] s = "Bar" -> "bar"
      [] OTHER -> s

\* dict(doc, **extra): doc with the fields of extra set
DictWith(doc, extra) ==
    [f \in DOMAIN doc \cup DOMAIN extra |->
        IF f \in DOMAIN extra THEN extra[f] ELSE doc[f]]

\* TestDatastore.trim: the fields whose name does not start with "_"
trim(doc) ==
    [f \in DOMAIN doc \ {"_id", "_rev", "_key", "_updated"} |-> doc[f]]

(***************************************************************************)
(* JsonDataType: the codec of the data column.                             *)
(***************************************************************************)
\* the order in which json.dumps writes the members of a mapping
FieldOrder ==
    <<"name", "isbns", "blob", "info", "_id", "_key", "_rev", "_updated">>

\* json.dumps raises TypeError on a value it cannot serialize
RECURSIVE Serializable(_)
Serializable(value) ==
    \A f \in DOMAIN value :
        /\ value[f].t # "object"
        /\ value[f].t = "dict" => Serializable(value[f].v)

\* json.dumps: the text of a mapping is the sequence of its members
\* <<name, text of the value>>; the text of a value is its JSON token
RECURSIVE JsonDumps(_), JsonDumpsValue(_)
JsonDumpsValue(x) ==
    CASE x.t = "str" -> <<"string", x.v>>
      [] x.t = "num" -> <<"number", x.v>>
      [] x.t = "bool" -> << IF x.v THEN "true" ELSE "false" >>
      [] x.t = "null" -> << "null" >>
      [] x.t = "list" -> <<"array", [i \in 1..Len(x.v) |-> <<"string", x.v[i]>>]>>
      [] x.t = "dict" -> <<"object", JsonDumps(x.v)>>

JsonDumps(value) ==
    LET present == SelectSeq(FieldOrder, LAMBDA f : f \in DOMAIN value)
    IN  [i \in 1..Len(present) |-> <<present[i], JsonDumpsValue(value[present[i]])>>]

RECURSIVE JsonLoads(_), JsonLoadsValue(_)
\* a decoder that reads a number as the string of its digits
JsonLoadsValueNumberAsString(tok) ==
    CASE tok[1] = "string" -> Str(tok[2])
      [] tok[1] = "number" -> Str("1")
      [] tok[1] = "true" -> Bool(TRUE)
      [] tok[1] = "false" -> Bool(FALSE)
      [] tok[1] = "null" -> None
      [] tok[1] = "array" -> List([i \in 1..Len(tok[2]) |-> tok[2][i][2]])
      [] tok[1] = "object" -> Dict(JsonLoads(tok[2]))

\* json.loads of the text of a value
JsonLoadsValue(tok) ==
    CASE tok[1] = "string" -> Str(tok[2])
      [] tok[1] = "number" -> Num(tok[2])
      [] tok[1] = "true" -> Bool(TRUE)
      [] tok[1] = "false" -> Bool(FALSE)
      [] tok[1] = "null" -> None
      [] tok[1] = "array" -> List([i \in 1..Len(tok[2]) |-> tok[2][i][2]])
      [] tok[1] = "object" -> Dict(JsonLoads(tok[2]))

\* json.loads that loses the last member of the text
JsonLoadsLosesMember(text) ==
    [f \in {text[i][1] : i \in 1..(Len(text) - 1)} |->
        LET i == CHOOSE j \in 1..Len(text) : text[j][1] = f
        IN  JsonLoadsValue(text[i][2])]

\* json.loads: the mapping of a text
JsonLoads(text) ==
    [f \in {text[i][1] : i \in 1..Len(text)} |->
        LET i == CHOOSE j \in 1..Len(text) : text[j][1] = f
        IN  JsonLoadsValue(text[i][2])]

\* zlib.compress / zlib.decompress
Compress(text) == [zlib |-> text]
Decompress(bytes) == bytes.zlib

\* JsonDataType.process_bind_param / process_result_value: None is NULL
ProcessBindParam(value) ==
    IF value = None THEN None ELSE Compress(JsonDumps(value))

ProcessResultValue(value) ==
    IF value = None THEN None ELSE JsonLoads(Decompress(value))

(***************************************************************************)
(* The views of the store: LNameView of the tests and the ISBNView of the  *)
(* View docstring.                                                         *)
(***************************************************************************)
ViewNames == {"lname", "isbn"}

\* the order in which Datastore.update_views walks self.views.values()
ViewOrder == <<"lname", "isbn">>

\* the all-NULL row
NullRow == [c \in {} |-> ""]

\* doc.get(field, default)
DictGet(doc, field, default) ==
    IF field \in DOMAIN doc THEN doc[field] ELSE default

\* View.map raises: LNameView calls .lower() on a value that is no string,
\* ISBNView iterates over a value that is no list
MapRaises(view, doc) ==
    IF view = "lname"
    THEN DictGet(doc, "name", Str("")).t # "str"
    ELSE DictGet(doc, "isbns", List(<<>>)).t # "list"

\* View.map: the rows a document yields, in order
Map(view, doc) ==
    IF view = "lname"
    THEN << [lname |-> Lower(DictGet(doc, "name", Str("")).v)] >>
    ELSE LET isbns == DictGet(doc, "isbns", List(<<>>)).v
         IN  [i \in 1..Len(isbns) |-> [isbn |-> isbns[i]]]

\* the bag of the elements of a sequence
SeqToBag(seq) ==
    [x \in {seq[i] : i \in 1..Len(seq)} |->
        Cardinality({i \in 1..Len(seq) : seq[i] = x})]

\* the rows of one document, each with the document's _id and _key
MapDoc(view, doc) ==
    LET rows == Map(view, doc)
    IN  SeqToBag([i \in 1..Len(rows) |->
            DictWith(rows[i], [_id |-> doc["_id"].v, _key |-> doc["_key"].v])])

RECURSIVE BagUnionOver(_, _, _)
BagUnionOver(view, docs, acc) ==
    IF docs = {} THEN acc
    ELSE LET doc == CHOOSE d \in docs : TRUE
         IN  BagUnionOver(view, docs \ {doc}, acc (+) MapDoc(view, doc))

\* View.map_docs, consumed by list(): the rows of all documents, or the
\* exception of the first map that raises
MapDocs(view, docs) ==
    IF \E doc \in docs : MapRaises(view, doc)
    THEN [err |-> TRUE, rows |-> EmptyBag]
    ELSE [err |-> FALSE, rows |-> BagUnionOver(view, docs, EmptyBag)]

\* a delete without its WHERE clause
ViewDeleteAllRows(rows, ids) == EmptyBag

\* t.delete().where(t.c._id.in_(ids)): a NULL _id is in no list
ViewDelete(rows, ids) ==
    LET keep == {r \in BagToSet(rows) : ~("_id" \in DOMAIN r /\ r._id \in ids)}
    IN  [r \in keep |-> rows[r]]

\* session.execute(t.insert().values(**bind_params), list(rows)).  An empty
\* list is no parameter set at all (Session.execute passes `params or {}`):
\* the statement is executed once with no value for any bind parameter,
\* which SQLAlchemy from 0.8 on refuses and older ones bind to NULL.
ViewInsert(rows, new) ==
    IF new # EmptyBag THEN [err |-> FALSE, rows |-> rows (+) new]
    ELSE IF bindRequired THEN [err |-> TRUE, rows |-> rows]
    ELSE [err |-> FALSE, rows |-> rows (+) SetToBag({NullRow})]

\* update_view without its delete statement
UpdateViewNoDelete(view, rows, docs) ==
    IF docs = {} THEN [err |-> FALSE, rows |-> rows]
    ELSE LET mapped == MapDocs(view, docs)
         IN  IF mapped.err THEN [err |-> TRUE, rows |-> rows]
             ELSE ViewInsert(rows, mapped.rows)

\* View.update_view
UpdateView(view, rows, docs) ==
    IF docs = {} THEN [err |-> FALSE, rows |-> rows]
    ELSE LET ids == {doc["_id"].v : doc \in docs}
             deleted == ViewDelete(rows, ids)
             mapped == MapDocs(view, docs)
         IN  IF mapped.err THEN [err |-> TRUE, rows |-> deleted]
             ELSE ViewInsert(deleted, mapped.rows)

\* Datastore.update_views: the views one after the other, up to the first
\* that raises
RECURSIVE UpdateViewsFrom(_, _, _)
UpdateViewsFrom(vws, docs, i) ==
    IF i > Len(ViewOrder) THEN [err |-> FALSE, views |-> vws]
    ELSE LET view == ViewOrder[i]
             r == UpdateView(view, vws[view], docs)
             next == [vws EXCEPT ![view] = r.rows]
         IN  IF r.err THEN [err |-> TRUE, views |-> next]
             ELSE UpdateViewsFrom(next, docs, i + 1)

UpdateViews(vws, docs) == UpdateViewsFrom(vws, docs, 1)

(***************************************************************************)
(* The statements on the primary table.                                    *)
(***************************************************************************)
Max(S) == CHOOSE x \in S : \A y \in S : y <= x

\* the autoincrement primary key: the id the backend gives the next row
NextId(ids) == 1 + Max(ids \cup {0})

\* t.select(t.c.key.in_(keys))
SelectKeys(rows, keys) == {r \in rows : r.key \in keys}

\* an insert into a table whose key column has no unique index
ExecuteInsertNoUniqueIndex(rows, params, first) ==
    IF \E i \in 1..Len(params) : ~Serializable(params[i].data)
    THEN [err |-> TRUE, rows |-> rows]
    ELSE [err |-> FALSE,
          rows |-> rows \cup
              { [id |-> first + i - 1, rev |-> "0", key |-> params[i].key,
                 data |-> ProcessBindParam(params[i].data)] : i \in 1..Len(params) }]

\* t.insert() of the parameter sets params, a sequence of [key, data], the
\* i-th row getting the id first + i - 1.  Binding data raises when a
\* document is not serializable, the unique index on key when a key exists.
ExecuteInsert(rows, params, first) ==
    IF \E i \in 1..Len(params) : ~Serializable(params[i].data)
    THEN [err |-> TRUE, rows |-> rows]
    ELSE IF \E i \in 1..Len(params) : \E r \in rows : r.key = params[i].key
    THEN [err |-> TRUE, rows |-> rows]
    ELSE [err |-> FALSE,
          rows |-> rows \cup
              { [id |-> first + i - 1, rev |-> "0", key |-> params[i].key,
                 data |-> ProcessBindParam(params[i].data)] : i \in 1..Len(params) }]

\* an executemany update that applies its first parameter set only
ExecuteUpdateFirstOnly(rows, params) ==
    IF \E i \in 1..Len(params) : ~Serializable(params[i].data)
    THEN [err |-> TRUE, rows |-> rows]
    ELSE [err |-> FALSE,
          rows |-> { IF r.key # params[1].key THEN r
                     ELSE [r EXCEPT !.rev = "0",
                             !.data = ProcessBindParam(params[1].data)]
                     : r \in rows }]

\* an update that replaces the row by a new one, with a new id
ExecuteUpdateNewId(rows, params) ==
    IF \E i \in 1..Len(params) : ~Serializable(params[i].data)
    THEN [err |-> TRUE, rows |-> rows]
    ELSE LET hit(r) == {i \in 1..Len(params) : params[i].key = r.key}
         IN  [err |-> FALSE,
              rows |-> { IF hit(r) = {} THEN r
                         ELSE [r EXCEPT !.id = NextId({x.id : x \in rows}) + Max(hit(r)) - 1,
                                 !.rev = "0",
                                 !.data = ProcessBindParam(params[Max(hit(r))].data)]
                         : r \in rows }]

\* t.update().where(t.c.key == key).values(data=, rev=) of the parameter sets
ExecuteUpdate(rows, params) ==
    IF \E i \in 1..Len(params) : ~Serializable(params[i].data)
    THEN [err |-> TRUE, rows |-> rows]
    ELSE LET hit(r) == {i \in 1..Len(params) : params[i].key = r.key}
         IN  [err |-> FALSE,
              rows |-> { IF hit(r) = {} THEN r
                         ELSE [r EXCEPT !.rev = "0",
                                 !.data = ProcessBindParam(params[Max(hit(r))].data)]
                         : r \in rows }]

(***************************************************************************)
(* Datastore: the calls, as functions of the tables they run on.  A write  *)
(* returns [err, table, views, ret]: whether it raised, the tables as its  *)
(* statements left them, and its return value.                             *)
(***************************************************************************)
\* a block that is not rolled back when it raises
TransactionNoRollback(tbl, vws, r) == r

\* `with session.begin():` commits when the block ends and rolls back when
\* it raises
Transaction(tbl, vws, r) ==
    IF r.err THEN [r EXCEPT !.table = tbl, !.views = vws] ELSE r

\* the body of Datastore.put; first is the id the backend gives a new row
PutBody(tbl, vws, key, doc, first) ==
    LET row == SelectKeys(tbl, {key})
        params == << [key |-> key, data |-> doc] >>
        w == IF row = {} THEN ExecuteInsert(tbl, params, first)
             ELSE ExecuteUpdate(tbl, params)
        _id == IF row = {} THEN first ELSE (CHOOSE r \in row : TRUE).id
        augmented == DictWith(doc, [_id |-> Num(_id), _key |-> Str(key),
                                    _rev |-> None, _updated |-> None])
        v == UpdateViews(vws, {augmented})
    IN  IF w.err THEN [err |-> TRUE, table |-> w.rows, views |-> vws, ret |-> None]
        ELSE IF v.err
        THEN [err |-> TRUE, table |-> w.rows, views |-> v.views, ret |-> None]
        ELSE [err |-> FALSE, table |-> w.rows, views |-> v.views,
              ret |-> [id |-> Num(_id), key |-> Str(key),
                       rev |-> None, updated |-> None]]

\* Datastore.put
put(tbl, vws, key, doc) ==
    Transaction(tbl, vws,
        PutBody(tbl, vws, key, doc, NextId({r.id : r \in tbl})))

\* the parameter sets put_many builds for the keys of `keys`, in the
\* iteration order `order` of the mapping
ParamsOf(mapping, order, keys) ==
    LET ks == SelectSeq(order, LAMBDA k : k \in keys)
    IN  [i \in 1..Len(ks) |-> [key |-> ks[i], data |-> mapping[ks[i]]]]

\* the body of Datastore.put_many
PutManyBody(tbl, vws, mapping, order, first) ==
    LET rows == SelectKeys(tbl, DOMAIN mapping)
        old_keys == {r.key : r \in rows}
        new_keys == {k \in DOMAIN mapping : k \notin old_keys}
        u == IF old_keys # {}
             THEN ExecuteUpdate(tbl, ParamsOf(mapping, order, old_keys))
             ELSE [err |-> FALSE, rows |-> tbl]
        i == IF new_keys # {}
             THEN ExecuteInsert(u.rows, ParamsOf(mapping, order, new_keys), first)
             ELSE [err |-> FALSE, rows |-> u.rows]
        result == SelectKeys(i.rows, DOMAIN mapping)
        new_mapping == { DictWith(mapping[r.key],
                            [_id |-> Num(r.id), _key |-> Str(r.key)]) : r \in result }
        v == UpdateViews(vws, new_mapping)
    IN  IF u.err THEN [err |-> TRUE, table |-> u.rows, views |-> vws, ret |-> None]
        ELSE IF i.err
        THEN [err |-> TRUE, table |-> i.rows, views |-> vws, ret |-> None]
        ELSE IF v.err
        THEN [err |-> TRUE, table |-> i.rows, views |-> v.views, ret |-> None]
        ELSE [err |-> FALSE, table |-> i.rows, views |-> v.views, ret |-> None]

\* Datastore.put_many
put_many(tbl, vws, mapping, order) ==
    Transaction(tbl, vws,
        PutManyBody(tbl, vws, mapping, order, NextId({r.id : r \in tbl})))

\* Datastore._process_row (the updated column is never written: it is NULL)
ProcessRow(row) ==
    DictWith(ProcessResultValue(row.data),
             [_id |-> Num(row.id), _rev |-> Str(row.rev),
              _key |-> Str(row.key), _updated |-> None])

\* Datastore.get
get(tbl, key) ==
    LET rows == SelectKeys(tbl, {key})
    IN  IF rows # {} THEN ProcessRow(CHOOSE r \in rows : TRUE) ELSE None

\* get_many without its WHERE clause
GetManyAllRows(tbl, keys) ==
    [k \in {r.key : r \in tbl} |-> ProcessRow(CHOOSE r \in tbl : r.key = k)]

\* Datastore.get_many
get_many(tbl, keys) ==
    LET rows == SelectKeys(tbl, keys)
    IN  [k \in {r.key : r \in rows} |->
            ProcessRow(CHOOSE r \in rows : r.key = k)]

\* one keyword filter of View.query on a row: a list is a membership test,
\* any other value an equality test; a NULL column satisfies neither, and
\* `column == None` is the test IS NULL
Satisfies(row, name, value) ==
    IF value.t = "null" THEN name \notin DOMAIN row
    ELSE /\ name \in DOMAIN row
         /\ IF value.t = "list"
            THEN \E i \in 1..Len(value.v) : row[name] = value.v[i]
            ELSE row[name] = value.v

\* the values the backend's driver can bind as a parameter of a comparison
Bindable(value) == value.t \in {"str", "num", "null"}

\* View.query / Datastore.query: the rows of the view that satisfy every
\* filter, with include_docs each with its document as _doc
query(tbl, vws, name, filters, include_docs) ==
    LET rows == vws[name]
        hit == {r \in BagToSet(rows) :
                   \A f \in DOMAIN filters : Satisfies(r, f, filters[f])}
        result == [r \in hit |-> rows[r]]
        mapping == get_many(tbl, {r._key : r \in {x \in hit : "_key" \in DOMAIN x}})
        joined == {DictWith(r, [_doc |-> mapping[r._key]]) : r \in hit}
    IN  IF \E f \in DOMAIN filters :
              filters[f].t # "list" /\ ~Bindable(filters[f])
        THEN [err |-> TRUE, ret |-> EmptyBag]
        ELSE IF ~include_docs THEN [err |-> FALSE, ret |-> result]
        ELSE IF \E r \in hit : "_key" \notin DOMAIN r \/ r._key \notin DOMAIN mapping
        THEN [err |-> TRUE, ret |-> EmptyBag]
        ELSE [err |-> FALSE,
              ret |-> [j \in joined |->
                          rows[CHOOSE r \in hit : DictWith(r, [_doc |-> mapping[r._key]]) = j]]]

(***************************************************************************)
(* The store used by one caller at a time: every call runs to its end      *)
(* before the next one starts.                                             *)
(***************************************************************************)
\* the mappings callers pass to put_many
Mappings == UNION {[S -> Docs] : S \in SUBSET Keys}

\* the orders in which a dict with the keys S can iterate
Orders(S) ==
    {q \in [1..Cardinality(S) -> S] :
        \A i, j \in 1..Cardinality(S) : i # j => q[i] # q[j]}

\* the keyword filters callers pass to query
Filters(view) ==
    IF view = "lname"
    THEN { [lname |-> Str("foo")],
           [lname |-> Str("bar")],
           [lname |-> List(<<"foo", "">>), _key |-> Str("a")],
           [lname |-> PySet({"foo", "bar"})] }
    ELSE { <<>>,
           [isbn |-> Str("i1")],
           [isbn |-> List(<<"i2", "i3">>), _id |-> Num(1)],
           [isbn |-> None] }

NullRows(vws) == CopiesIn(NullRow, vws["lname"]) + CopiesIn(NullRow, vws["isbn"])

NoTxn == [pc |-> "idle"]

\* the registered views that View._init has not bound to a table
Unbound == {name \in DOMAIN registered : ~registered[name]}

\* a write whose update_views reaches a view without a table: view.table
\* raises AttributeError and the transaction is rolled back
UnboundViewRaises(tbl, vws) ==
    [err |-> TRUE, table |-> tbl, views |-> vws, ret |-> None]

Init ==
    /\ table = {}
    /\ views = [v \in ViewNames |-> EmptyBag]
    /\ bindRequired \in BOOLEAN
    /\ last = [op |-> "init", args |-> <<>>, old |-> {}, err |-> FALSE, ret |-> None]
    /\ txn = [t \in {} |-> NoTxn]
    /\ registered = [name \in ViewNames |-> TRUE]

Put(key, doc) ==
    \E r \in { IF Unbound = {} THEN put(table, views, key, doc)
               ELSE UnboundViewRaises(table, views) } :
        /\ NullRows(r.views) <= MaxNullRows
        /\ table' = r.table
        /\ views' = r.views
        /\ last' = [op |-> "put", args |-> [key |-> key, doc |-> doc],
                    old |-> {x.key : x \in SelectKeys(table, {key})},
                    err |-> r.err, ret |-> r.ret]
        /\ UNCHANGED <<bindRequired, txn, registered>>

PutMany(mapping, order) ==
    \E r \in { IF Unbound = {} \/ DOMAIN mapping = {}
               THEN put_many(table, views, mapping, order)
               ELSE UnboundViewRaises(table, views) } :
        /\ NullRows(r.views) <= MaxNullRows
        /\ table' = r.table
        /\ views' = r.views
        /\ last' = [op |-> "put_many", args |-> [mapping |-> mapping, order |-> order],
                    old |-> {x.key : x \in SelectKeys(table, DOMAIN mapping)},
                    err |-> r.err, ret |-> r.ret]
        /\ UNCHANGED <<bindRequired, txn, registered>>

Get(key) ==
    /\ last' = [op |-> "get", args |-> [key |-> key], old |-> {},
                err |-> FALSE, ret |-> get(table, key)]
    /\ UNCHANGED <<table, views, bindRequired, txn, registered>>

GetMany(keys) ==
    /\ last' = [op |-> "get_many", args |-> [keys |-> keys], old |-> {},
                err |-> FALSE, ret |-> get_many(table, keys)]
    /\ UNCHANGED <<table, views, bindRequired, txn, registered>>

Query(name, filters, include_docs) ==
    \E r \in { IF registered[name]
               THEN query(table, views, name, filters, include_docs)
               ELSE [err |-> TRUE, ret |-> EmptyBag] } :
        /\ last' = [op |-> "query",
                    args |-> [name |-> name, filters |-> filters,
                              include_docs |-> include_docs],
                    old |-> {}, err |-> r.err, ret |-> r.ret]
        /\ UNCHANGED <<table, views, bindRequired, txn, registered>>

Next ==
    \/ \E key \in Keys, doc \in Docs : Put(key, doc)
    \/ \E mapping \in Mappings : \E order \in Orders(DOMAIN mapping) :
          PutMany(mapping, order)
    \/ \E key \in Keys : Get(key)
    \/ \E keys \in SUBSET Keys : GetMany(keys)
    \/ \E name \in ViewNames : \E filters \in Filters(name) :
          \E include_docs \in BOOLEAN : Query(name, filters, include_docs)

Spec == Init /\ [][Next]_vars

(***************************************************************************)
(* Properties of the store used by one caller at a time.                   *)
(***************************************************************************)
\* the document stored in a row, as put and put_many hand it to the views
Augmented(row) ==
    DictWith(ProcessResultValue(row.data),
             [_id |-> Num(row.id), _key |-> Str(row.key)])

\* the rows a view's map function yields for the documents stored in rows
Yielded(view, rows) ==
    BagUnionOver(view, {Augmented(r) : r \in rows}, EmptyBag)

WriteOps == {"put", "put_many"}

\* C1: after any sequence of successful put and put_many calls, every view's
\* table holds exactly the rows (with _id and _key) that the view's map
\* function yields for the data now stored for the documents of the primary
\* table: no stale row, no row of an absent id, no duplicate.
C1_ViewsHoldExactlyMappedRows ==
    \A view \in ViewNames : views[view] = Yielded(view, table)

\* C2: a put or put_many that raises (encoding, backend, map function, view
\* statement) leaves the primary table and every view table as they were.
C2_FailedWriteChangesNothing ==
    [][(last'.op \in WriteOps /\ last'.err) => (table' = table /\ views' = views)]_vars

\* a put_many of a stored and a new key that raised in the second view,
\* after the primary rows and the first view were written
C2_Witness ==
    /\ last.op = "put_many" /\ last.err
    /\ DOMAIN last.args.mapping = Keys
    /\ {r.key : r \in table} = {"a"}
    /\ last.args.mapping["a"] = [name |-> Str("Foo")]
    /\ last.args.mapping["b"] = [name |-> Str("Bar"), isbns |-> None]

\* C3: get(k) after a successful put(k, d) returns a document whose fields
\* other than _id, _key, _rev and _updated are exactly the fields of d,
\* whether k was stored before or not.
C3_GetAfterPut ==
    (last.op = "put" /\ ~last.err) =>
        trim(get(table, last.args.key)) = last.args.doc

\* a put that replaced the data of a stored key, the first of two
C3_Witness ==
    /\ last.op = "put" /\ ~last.err
    /\ last.old = {last.args.key}
    /\ last.ret.id = Num(1)
    /\ Cardinality(table) = 2
    /\ last.args.doc = [name |-> Str("FOO"), isbns |-> List(<<"i1", "i2">>)]

\* the rows of a view that belong to the document with the given id, without
\* their _id column (ids are the backend's choice)
RowsOfId(rows, id) ==
    LET mine == {r \in BagToSet(rows) : "_id" \in DOMAIN r /\ r._id = id}
        strip(r) == [c \in DOMAIN r \ {"_id"} |-> r[c]]
    IN  [x \in {strip(r) : r \in mine} |->
            rows[CHOOSE r \in mine : strip(r) = x]]

\* two stores hold the same keys, the same data for each key and, in each
\* view, the same index rows for each key
SameStored(t1, v1, t2, v2) ==
    /\ {r.key : r \in t1} = {r.key : r \in t2}
    /\ \A r1 \in t1, r2 \in t2 :
          r1.key = r2.key =>
             /\ r1.data = r2.data
             /\ \A view \in ViewNames :
                   RowsOfId(v1[view], r1.id) = RowsOfId(v2[view], r2.id)

\* put(k, mapping[k]) for the keys of order, one call after the other
RECURSIVE PutEach(_, _, _, _, _)
PutEach(tbl, vws, mapping, order, i) ==
    IF i > Len(order) THEN [table |-> tbl, views |-> vws]
    ELSE LET r == put(tbl, vws, order[i], mapping[order[i]])
         IN  PutEach(r.table, r.views, mapping, order, i + 1)

\* C4: from any state, a put_many(mapping) that succeeds leaves the same keys,
\* the same data for each key and the same index rows for each key in each
\* view as put(k, mapping[k]) called once per entry, in any order.
C4_PutManyIsPutOfEach ==
    [][(last'.op = "put_many" /\ ~last'.err) =>
          \A order \in Orders(DOMAIN last'.args.mapping) :
             LET s == PutEach(table, views, last'.args.mapping, order, 1)
             IN  SameStored(s.table, s.views, table', views')]_vars

\* C5: after a put_many(mapping) that succeeds, get(k) returns mapping[k]
\* (system fields aside) for every key of the mapping, stored before or not.
C5_GetAfterPutMany ==
    (last.op = "put_many" /\ ~last.err) =>
        \A k \in DOMAIN last.args.mapping :
            trim(get(table, k)) = last.args.mapping[k]

\* a batch of a stored key, whose data it changed, and a new key
C5_Witness ==
    /\ last.op = "put_many" /\ ~last.err
    /\ DOMAIN last.args.mapping = Keys
    /\ last.old = {"b"}
    /\ last.args.order = <<"a", "b">>
    /\ last.args.mapping["b"] = [isbns |-> List(<<"i2">>)]

\* C6: get_many(keys) returns a mapping whose keys are exactly the requested
\* keys that have a row in the primary table, each with the document get
\* returns for it, and raises for no key; get of a key without a row returns
\* None and does not raise.
C6_GetManyOnlyStoredKeys ==
    /\ last.op = "get_many" =>
          /\ ~last.err
          /\ DOMAIN last.ret = last.args.keys \cap {r.key : r \in table}
          /\ \A k \in DOMAIN last.ret : last.ret[k] = get(table, k)
    /\ (last.op = "get" /\ SelectKeys(table, {last.args.key}) = {}) =>
          (~last.err /\ last.ret = None)

\* a get_many of a stored and a missing key
C6_Witness ==
    /\ last.op = "get_many"
    /\ last.args.keys = Keys
    /\ DOMAIN last.ret = {"b"}

\* the id of the row of a key
IdOf(rows, key) == (CHOOSE r \in rows : r.key = key).id

\* C7: the id of a key never changes once its row is inserted: put and
\* put_many on a stored key keep it, put returns it, and the index rows
\* written for a key carry it as _id.
C7_IdNeverChanges ==
    [][/\ \A r \in table : \E n \in table' : n.key = r.key /\ n.id = r.id
       /\ (last'.op = "put" /\ ~last'.err) =>
             last'.ret.id = Num(IdOf(table', last'.args.key))
       /\ \A view \in ViewNames : \A row \in BagToSet(views'[view]) :
             "_key" \in DOMAIN row =>
                \E n \in table' : n.key = row._key /\ n.id = row._id]_vars

\* a put_many that updated the two stored keys, after which their rows and
\* index rows still carry the ids 1 and 2
C7_Witness ==
    /\ last.op = "put_many" /\ ~last.err
    /\ last.old = Keys
    /\ last.args.order = <<"a", "b">>
    /\ IdOf(table, "a") = 2
    /\ BagCardinality(RowsOfId(views["isbn"], 2)) = 2

\* the name stored in a row (None when the document has none)
NameOf(row) == DictGet(ProcessResultValue(row.data), "name", None)

\* a query of the lname view with the one filter lname=<string>
IsLNameQuery ==
    /\ last.op = "query" /\ last.args.name = "lname"
    /\ ~last.args.include_docs
    /\ DOMAIN last.args.filters = {"lname"}
    /\ last.args.filters["lname"].t = "str"

\* a query with one equality filter returns exactly the rows of the view's
\* table whose column equals the value, each with its _key
QueryReturnsEqualRows ==
    (/\ last.op = "query" /\ ~last.args.include_docs
     /\ \E f \in DOMAIN last.args.filters :
           DOMAIN last.args.filters = {f} /\ last.args.filters[f].t = "str") =>
        LET f == CHOOSE x \in DOMAIN last.args.filters : TRUE
            rows == views[last.args.name]
            equal == {r \in BagToSet(rows) :
                         f \in DOMAIN r /\ r[f] = last.args.filters[f].v}
        IN  /\ ~last.err
            /\ last.ret = [r \in equal |-> rows[r]]
            /\ \A r \in equal : "_key" \in DOMAIN r

\* the query of the lowercased name of a stored document returns one row,
\* and its _key is the key of the document
OneRowForEachName ==
    \A r \in table :
        Lower(NameOf(r).v) = last.args.filters["lname"].v =>
            /\ BagCardinality(last.ret) = 1
            /\ \A row \in BagToSet(last.ret) : row._key = r.key

\* C10 as stated: query(view, f=v) returns exactly the rows whose column f
\* equals v; when the documents stored have distinct names, the query of the
\* lname view for one document's lowercased name returns exactly one row,
\* whose _key is that document's key.
C10_OneRowWhenNamesDistinct ==
    /\ QueryReturnsEqualRows
    /\ (/\ IsLNameQuery
        /\ \A r \in table : NameOf(r).t = "str"
        /\ \A r1, r2 \in table : r1 # r2 => NameOf(r1).v # NameOf(r2).v)
       => OneRowForEachName

\* C10, amended: the same, when the documents stored have distinct
\* lowercased names.
C10_OneRowWhenLowerNamesDistinct ==
    /\ QueryReturnsEqualRows
    /\ (/\ IsLNameQuery
        /\ \A r \in table : NameOf(r).t = "str"
        /\ \A r1, r2 \in table :
              r1 # r2 => Lower(NameOf(r1).v) # Lower(NameOf(r2).v))
       => OneRowForEachName

\* two documents named Foo and Bar are stored and lname="foo" is queried
C10_Witness ==
    /\ IsLNameQuery
    /\ last.args.filters["lname"] = Str("foo")
    /\ {NameOf(r) : r \in table} = {Str("Foo"), Str("Bar")}
    /\ BagCardinality(last.ret) = 1

\* a row satisfies a filter as View.query documents it: its column is one
\* of the members of a set or a list, or equal to any other value
FilterHolds(row, name, value) ==
    LET col == IF name \in DOMAIN row THEN [null |-> FALSE, v |-> row[name]]
               ELSE [null |-> TRUE]
    IN  CASE value.t = "list" ->
                ~col.null /\ \E i \in 1..Len(value.v) : col.v = value.v[i]
          [] value.t = "set" -> ~col.null /\ col.v \in value.v
          [] value.t = "null" -> col.null
          [] OTHER -> ~col.null /\ col.v = value.v

\* C11: in View.query every filter whose value is a set or a list is a
\* membership predicate, every filter with another value exact equality,
\* and the result is exactly the rows that satisfy all filters together.
C11_QueryReturnsRowsSatisfyingAllFilters ==
    (last.op = "query" /\ ~last.args.include_docs) =>
        LET rows == views[last.args.name]
            hit == {r \in BagToSet(rows) :
                       \A f \in DOMAIN last.args.filters :
                           FilterHolds(r, f, last.args.filters[f])}
        IN  ~last.err /\ last.ret = [r \in hit |-> rows[r]]

\* C12: query with include_docs returns the index rows the query without it
\* returns, each with a _doc field that is the document get_many returns
\* for the row's _key; the join fails for no row the view select returned.
C12_IncludeDocsJoinsEveryRow ==
    (last.op = "query" /\ last.args.include_docs) =>
        \A plain \in {query(table, views, last.args.name, last.args.filters, FALSE)} :
            ~plain.err =>
                /\ ~last.err
                /\ \A r \in BagToSet(plain.ret) :
                      /\ "_key" \in DOMAIN r
                      /\ r._key \in DOMAIN get_many(table, {r._key})
                      /\ LET j == DictWith(r, [_doc |-> get_many(table, {r._key})[r._key]])
                         IN  CopiesIn(j, last.ret) = CopiesIn(r, plain.ret)
                /\ BagCardinality(last.ret) = BagCardinality(plain.ret)

\* the mapping of keys to documents that a put or put_many writes
Written(call) ==
    IF call.op = "put" THEN [k \in {call.args.key} |-> call.args.doc]
    ELSE call.args.mapping

\* C16: a put or put_many in which a view's map function yields no row for
\* any document of the batch still succeeds, removes the index rows stored
\* before for the ids of the batch and leaves the view with no row for
\* them, and no row of empty or null column values is inserted.
C16_ZeroRowsLeaveNoRow ==
    [][(/\ last'.op \in WriteOps
        /\ DOMAIN Written(last') # {}
        /\ \A k \in DOMAIN Written(last') :
              /\ Serializable(Written(last')[k])
              /\ \A view \in ViewNames : ~MapRaises(view, Written(last')[k]))
       => /\ ~last'.err
          /\ \A view \in ViewNames :
                (\A k \in DOMAIN Written(last') : Map(view, Written(last')[k]) = <<>>)
                => /\ \A k \in DOMAIN Written(last') :
                         RowsOfId(views'[view], IdOf(table', k)) = EmptyBag
                   /\ CopiesIn(NullRow, views'[view]) = CopiesIn(NullRow, views[view])]_vars

\* C18: a put or put_many changes only what belongs to the keys it writes.
\* The primary rows of the other keys are unchanged and no row of another
\* key appears; in every view the rows whose _id is the id of another
\* document are unchanged, and a row that the write removed has its _id
\* among the ids of the batch; when the write succeeds, the row of each
\* written key holds the data given for it and each view's table is what
\* the maintenance of that view alone makes of it.
C18_WriteChangesOnlyItsKeys ==
    [][last'.op \in WriteOps =>
          \E docs \in {Written(last')} :
          \E written \in {SelectKeys(table', DOMAIN docs)} :
          \E ids \in {{r.id : r \in written}} :
              /\ \A r \in table \cup table' :
                    r.key \notin DOMAIN docs => (r \in table /\ r \in table')
              /\ \A view \in ViewNames :
                    \E old \in {views[view]} : \E new \in {views'[view]} :
                       /\ \A row \in BagToSet(old) \cup BagToSet(new) :
                             /\ ("_id" \in DOMAIN row /\ row._id \notin ids)
                                => CopiesIn(row, new) = CopiesIn(row, old)
                             /\ CopiesIn(row, new) < CopiesIn(row, old)
                                => ("_id" \in DOMAIN row /\ row._id \in ids)
                       /\ ~last'.err =>
                             new = UpdateView(view, old,
                                              {Augmented(r) : r \in written}).rows
              /\ ~last'.err =>
                    \A r \in written : r.data = ProcessBindParam(docs[r.key])]_vars

\* a put replaced the data of the stored key "a" while "b" was stored with
\* two equal rows in the isbn view, which are still there
C18_Witness ==
    /\ last.op = "put" /\ ~last.err
    /\ last.args.key = "a" /\ last.old = {"a"}
    /\ last.args.doc = [isbns |-> List(<<"i2">>)]
    /\ \E r \in table :
          /\ r.key = "b"
          /\ CopiesIn([isbn |-> "i1", _id |-> r.id, _key |-> "b"], views["isbn"]) = 2

(***************************************************************************)
(* The store used by one caller that writes back what it read: the         *)
(* document of a put may be the document the get before it returned, the   *)
(* mapping of a put_many the mapping the get_many before it returned.      *)
(***************************************************************************)
\* the documents the caller writes that it did not read
NewDocs ==
    { [name |-> Str("Foo")],
      [name |-> Str("Bar"), isbns |-> List(<<"i1", "i1">>)] }

\* the document the last call returned, when it was a get of a stored key
ReadDocs ==
    IF last.op = "get" /\ last.ret # None THEN {last.ret} ELSE {}

\* the mapping the last call returned, when it was a get_many
ReadMappings ==
    IF last.op = "get_many" /\ DOMAIN last.ret # {} THEN {last.ret} ELSE {}

WriteBackNext ==
    \/ \E key \in Keys, doc \in NewDocs : Put(key, doc)
    \/ \E key \in Keys, doc \in ReadDocs : Put(key, doc)
    \/ \E mapping \in ReadMappings : \E order \in Orders(DOMAIN mapping) :
          PutMany(mapping, order)
    \/ \E key \in Keys : Get(key)
    \/ \E keys \in SUBSET Keys : GetMany(keys)

WriteBackSpec == Init /\ [][WriteBackNext]_vars

\* C13: after any sequence of put and put_many calls, also of documents that
\* get or get_many returned before, the data stored in the primary table
\* for a key never contains the fields _id, _key, _rev or _updated.
C13_DataHoldsNoReservedField ==
    \A r \in table : DOMAIN ProcessResultValue(r.data) \cap SystemFields = {}

(***************************************************************************)
(* The store whose caller also registers views after construction.         *)
(***************************************************************************)
\* the names under which the caller registers a view
AddedNames == {"lname", "extra"}

\* Datastore.add_view: self.views[name] = view, a view that _init has not
\* bound to a table
AddView(name) ==
    /\ registered' = [n \in DOMAIN registered \cup {name} |->
                         IF n = name THEN FALSE ELSE registered[n]]
    /\ last' = [op |-> "add_view", args |-> [name |-> name], old |-> {},
                err |-> FALSE, ret |-> None]
    /\ UNCHANGED <<table, views, bindRequired, txn>>

AddViewNext ==
    \/ \E name \in AddedNames : AddView(name)
    \/ \E key \in Keys, doc \in NewDocs : Put(key, doc)
    \/ \E mapping \in UNION {[S -> NewDocs] : S \in SUBSET Keys} :
          \E order \in Orders(DOMAIN mapping) : PutMany(mapping, order)
    \/ \E name \in DOMAIN registered : \E filters \in Filters(name) :
          Query(name, filters, FALSE)

AddViewSpec == Init /\ [][AddViewNext]_vars

\* C14: the set of views registered with a store is fixed at construction:
\* no operation performed afterwards changes it, and every registered view
\* is bound to its table whenever put, put_many or query uses it.
C14_RegisteredViewsFixedAndBound ==
    [][/\ DOMAIN registered' = DOMAIN registered
       /\ last'.op \in {"put", "put_many", "query"} => Unbound = {}]_vars

(***************************************************************************)
(* The codec of the data column on its own: a value is bound as a          *)
(* parameter and the bytes are read back as a result.                      *)
(***************************************************************************)
\* the values of the members of a mapping: primitive values and lists
Leaves ==
    { Str("Foo"), Num(1), None, Bool(TRUE), List(<<"i1", "i2">>), List(<<>>) }

\* nested mappings whose members are such values
Nested ==
    { Dict(d) : d \in UNION {[S -> Leaves] : S \in SUBSET {"name", "isbns"}} }

\* the values handed to the codec: None and documents
CodecValues ==
    {None}
    \cup {[info |-> x] : x \in Leaves \cup Nested}
    \cup {[name |-> p, info |-> x] : p \in {Str("Bar"), Num(2)}, x \in Nested}

\* JsonDataType.process_bind_param(value)
Encode(value) ==
    /\ last' = [op |-> "process_bind_param", args |-> [value |-> value],
                old |-> {}, err |-> FALSE, ret |-> ProcessBindParam(value)]
    /\ UNCHANGED <<table, views, bindRequired, txn, registered>>

\* JsonDataType.process_result_value of the bytes the last call returned
Decode ==
    /\ last.op = "process_bind_param"
    /\ last' = [op |-> "process_result_value",
                args |-> [value |-> last.args.value, bytes |-> last.ret],
                old |-> {}, err |-> FALSE, ret |-> ProcessResultValue(last.ret)]
    /\ UNCHANGED <<table, views, bindRequired, txn, registered>>

CodecNext ==
    \/ \E value \in CodecValues : Encode(value)
    \/ Decode

CodecSpec == Init /\ [][CodecNext]_vars

Callers == {"t1", "t2"}

\* the documents concurrent callers write, and the one stored beforehand
ConcDocs ==
    { [name |-> Str("Foo")],
      [name |-> Str("FOO"), isbns |-> List(<<"i1", "i2">>)],
      [name |-> Str("Bar"), isbns |-> None] }

StoredDoc == [name |-> Str("Bar"), isbns |-> List(<<"i1", "i1">>)]

\* the mappings concurrent callers pass to put_many
ConcMappings == [Keys -> ConcDocs \ {[name |-> Str("Bar"), isbns |-> None]}]

NoRows == [v \in ViewNames |-> EmptyBag]

\* the keys of a call
KeysOf(op, args) == IF op = "put" THEN {args.key} ELSE DOMAIN args.mapping

\* what a transaction reads: the committed rows, with its own writes
VisTable(t) ==
    {r \in table : \A w \in txn[t].tadd : w.id # r.id} \cup txn[t].tadd

VisViews(t) ==
    [v \in ViewNames |-> (views[v] (-) txn[t].vdel[v]) (+) txn[t].vadd[v]]

\* a backend whose writes take no lock
NoLockedKeys(t) == {}

\* the keys the other open transactions have written
LockedKeys(t) ==
    {r.key : r \in UNION {txn[u].tadd : u \in Callers \ {t}}}

\* the ids of the documents whose index rows the other open transactions
\* have deleted
LockedIds(t) ==
    {r._id : r \in UNION {BagToSet(txn[u].vdel[v]) :
                            u \in Callers \ {t}, v \in ViewNames}}

\* the id the backend gives the next row: above every id given so far
FreshId ==
    NextId({r.id : r \in table \cup UNION {txn[u].tadd : u \in Callers}})

\* the primary table after a transaction that wrote tadd is rolled back
RollbackKeepsWrites(tbl, tadd) ==
    {r \in tbl : \A w \in tadd : w.id # r.id} \cup tadd

RollbackTable(tbl, tadd) == tbl

\* the primary table after a transaction that wrote tadd is committed
CommitTable(tbl, tadd) ==
    {r \in tbl : \A w \in tadd : w.id # r.id} \cup tadd

\* the call of t has ended
Ended(t, err, ret) ==
    /\ txn' = [txn EXCEPT ![t] = [@ EXCEPT !.pc = IF err THEN "failed" ELSE "committed",
                                          !.tadd = {}, !.vdel = NoRows,
                                          !.vadd = NoRows]]
    /\ last' = [op |-> txn[t].op, args |-> txn[t].args,
                old |-> {r.key : r \in txn[t].seen}, err |-> err, ret |-> ret]

\* the block of t raised: `with session.begin()` rolls back
Raise(t) ==
    /\ table' = RollbackTable(table, txn[t].tadd)
    /\ views' = views
    /\ Ended(t, TRUE, None)

\* the statement of t wrote the primary table: rows is the table t reads now
Wrote(t, rows, keys, pc) ==
    /\ txn' = [txn EXCEPT ![t] = [@ EXCEPT !.pc = pc,
                                          !.tadd = {r \in rows : r.key \in keys} \cup @]]
    /\ UNCHANGED <<table, views, last>>

\* the statement that follows the first select of a call
AfterSelect(op, args, seen) ==
    IF op = "put" THEN "write"
    ELSE IF seen # {} THEN "update"
    ELSE IF DOMAIN args.mapping # {} THEN "insert"
    ELSE "views"

\* session.begin() and the first select of put and put_many
TxSelect(t, op, args) ==
    /\ txn[t].pc = "idle"
    /\ LET seen == SelectKeys(table, KeysOf(op, args))
       IN  txn' = [txn EXCEPT ![t] =
                      [pc |-> AfterSelect(op, args, seen), op |-> op, args |-> args,
                       seen |-> seen, tadd |-> {}, vdel |-> NoRows, vadd |-> NoRows]]
    /\ UNCHANGED <<table, views, bindRequired, last, registered>>

\* the insert or the update of put
TxWrite(t) ==
    /\ txn[t].pc = "write"
    /\ txn[t].args.key \notin LockedKeys(t)
    /\ LET params == << [key |-> txn[t].args.key, data |-> txn[t].args.doc] >>
       IN  \E w \in { IF txn[t].seen = {}
                      THEN ExecuteInsert(VisTable(t), params, FreshId)
                      ELSE ExecuteUpdate(VisTable(t), params) } :
              IF w.err THEN Raise(t)
              ELSE Wrote(t, w.rows, {txn[t].args.key}, "views")
    /\ UNCHANGED <<bindRequired, registered>>

\* the update of put_many, for the keys its select returned
TxUpdate(t) ==
    /\ txn[t].pc = "update"
    /\ LET mapping == txn[t].args.mapping
           old_keys == {r.key : r \in txn[t].seen}
           new_keys == {k \in DOMAIN mapping : k \notin old_keys}
       IN  /\ old_keys \cap LockedKeys(t) = {}
           /\ \E u \in { ExecuteUpdate(VisTable(t),
                            ParamsOf(mapping, txn[t].args.order, old_keys)) } :
                 IF u.err THEN Raise(t)
                 ELSE Wrote(t, u.rows, old_keys,
                            IF new_keys # {} THEN "insert" ELSE "views")
    /\ UNCHANGED <<bindRequired, registered>>

\* the insert of put_many, for the other keys
TxInsert(t) ==
    /\ txn[t].pc = "insert"
    /\ LET mapping == txn[t].args.mapping
           old_keys == {r.key : r \in txn[t].seen}
           new_keys == {k \in DOMAIN mapping : k \notin old_keys}
       IN  /\ new_keys \cap LockedKeys(t) = {}
           /\ \E i \in { ExecuteInsert(VisTable(t),
                            ParamsOf(mapping, txn[t].args.order, new_keys), FreshId) } :
                 IF i.err THEN Raise(t)
                 ELSE Wrote(t, i.rows, new_keys, "views")
    /\ UNCHANGED <<bindRequired, registered>>

\* the documents a call hands to update_views: put knows the id of its row,
\* put_many selects the ids of the keys of the mapping
DocsForViews(t) ==
    IF txn[t].op = "put"
    THEN { DictWith(txn[t].args.doc,
              [_id |-> Num(IdOf(txn[t].tadd, txn[t].args.key)),
               _key |-> Str(txn[t].args.key), _rev |-> None, _updated |-> None]) }
    ELSE { DictWith(txn[t].args.mapping[r.key],
              [_id |-> Num(r.id), _key |-> Str(r.key)]) :
              r \in SelectKeys(VisTable(t), DOMAIN txn[t].args.mapping) }

\* update_views: in each view the delete and the insert
TxViews(t) ==
    /\ txn[t].pc = "views"
    /\ LET docs == DocsForViews(t)
           ids == {doc["_id"].v : doc \in docs}
           kept == [v \in ViewNames |-> ViewDelete(views[v], ids)]
       IN  /\ ids \cap LockedIds(t) = {}
           /\ \E r \in { UpdateViews(VisViews(t), docs) } :
                 IF r.err THEN Raise(t)
                 ELSE /\ txn' = [txn EXCEPT ![t] =
                            [@ EXCEPT !.pc = "commit",
                                      !.vdel = [v \in ViewNames |-> views[v] (-) kept[v]],
                                      !.vadd = [v \in ViewNames |-> r.views[v] (-) kept[v]]]]
                      /\ UNCHANGED <<table, views, last>>
    /\ UNCHANGED <<bindRequired, registered>>

\* the end of the `with session.begin()` block: commit
TxCommit(t) ==
    /\ txn[t].pc = "commit"
    /\ table' = CommitTable(table, txn[t].tadd)
    /\ views' = VisViews(t)
    /\ Ended(t, FALSE,
             IF txn[t].op = "put"
             THEN [id |-> Num(IdOf(txn[t].tadd, txn[t].args.key)),
                   key |-> Str(txn[t].args.key), rev |-> None, updated |-> None]
             ELSE None)
    /\ UNCHANGED <<bindRequired, registered>>

\* the store when the callers start: any of the keys stored, by put_many
ConcInit ==
    /\ bindRequired \in BOOLEAN
    /\ \E keys \in SUBSET Keys : \E order \in Orders(keys) :
          LET r == put_many({}, NoRows, [k \in keys |-> StoredDoc], order)
          IN  table = r.table /\ views = r.views
    /\ last = [op |-> "init", args |-> <<>>, old |-> {}, err |-> FALSE, ret |-> None]
    /\ txn = [t \in Callers |-> [pc |-> "idle", op |-> "none", args |-> <<>>,
                                 seen |-> {}, tadd |-> {}, vdel |-> NoRows,
                                 vadd |-> NoRows]]
    /\ registered = [name \in ViewNames |-> TRUE]

ConcNext ==
    \E t \in Callers :
        \/ \E key \in Keys, doc \in ConcDocs :
              TxSelect(t, "put", [key |-> key, doc |-> doc])
        \/ \E mapping \in ConcMappings : \E order \in Orders(DOMAIN mapping) :
              TxSelect(t, "put_many", [mapping |-> mapping, order |-> order])
        \/ TxWrite(t)
        \/ TxUpdate(t)
        \/ TxInsert(t)
        \/ TxViews(t)
        \/ TxCommit(t)

ConcSpec == ConcInit /\ [][ConcNext]_vars

(***************************************************************************)
(* Properties of the store used by concurrent callers.                     *)
(***************************************************************************)
EndedPcs == {"committed", "failed"}

\* a put of the document, alone on the store, succeeds
PutSucceedsAlone(doc) ==
    /\ Serializable(doc)
    /\ \A view \in ViewNames :
          ~MapRaises(view, doc) /\ (bindRequired => Map(view, doc) # <<>>)

\* C8: when two puts on the same key, stored already or not, run
\* concurrently, neither fails and the data stored for the key afterwards is
\* the data of the put that committed last.
C8_BothPutsSucceedLastWins ==
    \A t, u \in Callers :
        (/\ t # u
         /\ txn[t].op = "put" /\ txn[u].op = "put"
         /\ txn[t].pc \in EndedPcs /\ txn[u].pc \in EndedPcs
         /\ txn[t].args.key = txn[u].args.key
         /\ PutSucceedsAlone(txn[t].args.doc) /\ PutSucceedsAlone(txn[u].args.doc))
        => /\ txn[t].pc = "committed" /\ txn[u].pc = "committed"
           /\ \A r \in SelectKeys(table, {last.args.key}) :
                 r.data = ProcessBindParam(last.args.doc)

\* the rows of a view that carry the given id
RowsWithId(rows, id) ==
    LET mine == {r \in BagToSet(rows) : "_id" \in DOMAIN r /\ r._id = id}
    IN  [r \in mine |-> rows[r]]

\* C9: what the other transactions can read, the committed tables, never
\* holds a document whose primary row reflects a write that the rows of some
\* view for it do not reflect, nor view rows without their primary row: the
\* primary row and the index rows of a write become visible together, and
\* only when every step of the call succeeded.
C9_WritesBecomeVisibleTogether ==
    \A view \in ViewNames :
        /\ \A r \in table :
              RowsWithId(views[view], r.id) = MapDoc(view, Augmented(r))
        /\ \A row \in BagToSet(views[view]) :
              "_id" \in DOMAIN row => \E r \in table : r.id = row._id

\* one caller has committed a put_many while the other, which has replaced
\* the data of a stored key and rewritten its index rows, has not yet
C9_Witness ==
    /\ txn["t1"].pc = "commit" /\ txn["t1"].op = "put"
    /\ txn["t1"].seen # {}
    /\ txn["t1"].tadd # {}
    /\ txn["t1"].vadd["isbn"] # EmptyBag
    /\ txn["t2"].pc = "committed" /\ txn["t2"].op = "put_many"
    /\ \E r \in txn["t1"].tadd : r \notin table

\* at most one row of the rows has a given key
OneRowPerKey(rows) == \A r1, r2 \in rows : r1.key = r2.key => r1 = r2

\* C17: in every reachable state, also those reached by interleaved
\* concurrent put and put_many calls that insert the same new key, the
\* primary table holds at most one row per key, in what is committed and in
\* what each open transaction reads.
C17_AtMostOneRowPerKey ==
    /\ OneRowPerKey(table)
    /\ \A t \in Callers : OneRowPerKey(VisTable(t))

\* a put and a put_many that both found the key "a" missing have ended: the
\* one committed its insert, the insert of the other was refused
C17_Witness ==
    /\ txn["t1"].op = "put" /\ txn["t1"].pc = "committed"
    /\ txn["t1"].args.key = "a" /\ txn["t1"].seen = {}
    /\ txn["t2"].op = "put_many" /\ txn["t2"].pc = "failed"
    /\ \A r \in txn["t2"].seen : r.key # "a"
    /\ Cardinality({r \in table : r.key = "a"}) = 1

\* every caller has made its call, and the call has ended
AllEnded == \A t \in Callers : txn[t].pc \in EndedPcs

\* C19: when several put or put_many transactions that write the same key
\* are interleaved, then once all of them have committed or rolled back,
\* each view holds for that key exactly the rows the map function yields
\* for the data finally stored in the primary row: no row left over from
\* the write that lost the race and no duplicated row.
C19_ViewsFollowTheDataFinallyStored ==
    AllEnded =>
        \A k \in Keys :
            (\A t \in Callers : k \in KeysOf(txn[t].op, txn[t].args)) =>
                \A view \in ViewNames :
                    /\ \A r \in SelectKeys(table, {k}) :
                          RowsWithId(views[view], r.id) = MapDoc(view, Augmented(r))
                    /\ \A row \in BagToSet(views[view]) :
                          ("_key" \in DOMAIN row /\ row._key = k) =>
                              \E r \in SelectKeys(table, {k}) : r.id = row._id

\* a put and a put_many of the stored key "a" both read its row before
\* either had committed, both have committed, the put last, and the data of
\* the put is stored
C19_Witness ==
    /\ AllEnded
    /\ txn["t1"].op = "put" /\ txn["t1"].pc = "committed"
    /\ txn["t1"].args.key = "a"
    /\ txn["t1"].args.doc = [name |-> Str("FOO"), isbns |-> List(<<"i1", "i2">>)]
    /\ txn["t2"].op = "put_many" /\ txn["t2"].pc = "committed"
    /\ txn["t2"].args.mapping["a"] = [name |-> Str("Foo")]
    /\ SelectKeys(txn["t1"].seen, {"a"}) # {}
    /\ SelectKeys(txn["t1"].seen, {"a"}) = SelectKeys(txn["t2"].seen, {"a"})
    /\ last.op = "put"
    /\ \A r \in SelectKeys(table, {"a"}) :
          r.data = ProcessBindParam(txn["t1"].args.doc)

====
